---- MODULE Spec2Model ----
(***************************************************************************)
(* Model of the UCI engine session of maia-fish                            *)
(* (src/src/main/uci-engine.ts, class UciEngine, lines 334-594).           *)
(*                                                                         *)
(* One UciEngine object drives one child process at a time.  Every public  *)
(* method and every line handler runs to completion on the single          *)
(* JavaScript event loop, so each is one atomic action here; the           *)
(* continuation of an `await` is run in the action that resolves the       *)
(* awaited promise (it is a microtask of that event-loop turn).            *)
(*                                                                         *)
(* Lines are pairs <<text, argument>>.  `wire` holds the go and stop lines  *)
(* written to the child since the last bestmove line was read from it, in  *)
(* the order they were written.                                            *)
(*                                                                         *)
(* The listeners that main/index.ts (src/unnamed/part_005, lines 102-126)  *)
(* attaches to the engine run inside emit(), so they are part of the       *)
(* action that emits: chunks and timer are the buffer and the interval of  *)
(* the output.  Spec is the session with a child that lives until it is    *)
(* killed and prints well-formed lines; FaultSpec adds a child that exits  *)
(* or prints a malformed bestmove line, OutputSpec the info lines and the  *)
(* interval, with the calls the ipc handlers make.  BehavedSpec is the      *)
(* session over several children that print a bestmove line for a go line  *)
(* only, LifetimesSpec the main process over several children and the      *)
(* window, with children that print info lines during a search only.  The  *)
(* history of the position lines (asked, positionSent, origin) is kept by  *)
(* the actions of LifetimesSpec; the other actions leave it as it is.      *)
(***************************************************************************)
EXTENDS Naturals, Sequences, FiniteSets

VARIABLES
    state,            \* UciEngine.#state
    pendingPosition,  \* UciEngine.pendingPosition (0 is undefined)
    pendingDepth,     \* UciEngine.pendingDepth
    process,          \* UciEngine.process (0 is null, otherwise the id of the child)
    exited,           \* the child of `process` has exited by itself
    spawns,           \* number of child processes spawned so far
    wire,             \* go/stop lines written since the last bestmove read
    seen,             \* the lines start() wrote to the current child and the answers read
    readyDue,         \* an `isready` line was written to the child and not answered
    uciWait,          \* the promise of sendAndWaitFor("uci", ...) of the current child
    waiters,          \* promises waiting on once("bestmove")
    readyWaiters,     \* promises waiting on once("readyok")
    sinceGo,          \* what was called since the last `go` line was written
    quiet,            \* newGame() was the last method called, and it was called alone
    chunks,           \* main/index.ts chunks: the depth buffered per first pv move (0 is none)
    timer,            \* main/index.ts engineOutputTimeout: the interval of flush is armed
    options,          \* the array `options` of the last uci() call
    received,         \* the option lines read by the line listener of the last uci() call
    asked,            \* the string of the last position() call (a traced one) for this child
    positionSent,     \* the last position line written (by a traced step), and its child
    origin,           \* per record buffered by SearchInfo, the position its child searched
    step              \* the last call or line handled, with what it did

vars == <<state, pendingPosition, pendingDepth, process, exited, spawns, wire, seen,
          readyDue, uciWait, waiters, readyWaiters, sinceGo, quiet, chunks, timer,
          options, received, asked, positionSent, origin, step>>

(***************************************************************************)
(* Bounds of the model.                                                    *)
(***************************************************************************)
\* position strings handed to position() are 1..NumPositions
NumPositions == 2
\* depths handed to go() are 0..MaxDepth (0 is "no depth")
MaxDepth == 1
\* child processes spawned in one run
MaxProc == 2

\* first moves of the pv of an info line are 1..NumMoves
NumMoves == 2
\* depths of an info line are 1..MaxInfoDepth
MaxInfoDepth == 2

\* option lines the child prints to one uci() call
MaxOptions == 2

Positions == 1..NumPositions
Depths == 0..MaxDepth
Moves == 1..NumMoves
InfoDepths == 1..MaxInfoDepth

\* `new Map()`: nothing is buffered
NoChunks == [m \in Moves |-> 0]

EngineStates == {"unloaded", "idle", "running", "waitingBestMoveToIdle", "waitingBestMoveToRun"}

Stopping == {"waitingBestMoveToIdle", "waitingBestMoveToRun"}

(***************************************************************************)
(* Protocol text.                                                          *)
(***************************************************************************)
\* the go line without the test of depth: `go depth ${depth}`
GoLineAlwaysDepth(depth) == <<"go depth", depth>>

\* go(): `go ${depth ? `depth ${depth}` : "infinite"}`
GoLine(depth) == IF depth # 0 THEN <<"go depth", depth>> ELSE <<"go infinite", 0>>

\* position(): `position ${this.pendingPosition}`
PositionLine(str) == <<"position", str>>

IsGo(line) == line[1] \in {"go depth", "go infinite"}

\* sendPendingPosition(): the lines it writes for a pending position pos
SendPendingPosition(pos) == IF pos # 0 THEN <<PositionLine(pos)>> ELSE <<>>

\* the lines of seq that satisfy the test kind
Lines(seq, kind) == SelectSeq(seq, LAMBDA l : l[1] = kind)

GoLines(seq) == SelectSeq(seq, IsGo)

\* the lines of seq that go into `wire`
Search(seq) == SelectSeq(seq, LAMBDA l : l[1] \in {"go depth", "go infinite", "stop"})

\* the handshake lines among seq
Handshake(seq) == {seq[i][1] : i \in {j \in 1..Len(seq) : seq[j][1] \in {"uci", "isready"}}}

\* the lines start() hands to send(): uci() writes `uci` and nothing else
StartLines == << <<"uci", 0>> >>

\* nothing was called since the last `go` line (written by nobody yet)
NoHist == [by |-> "none", ops |-> {}, pos |-> 0, over |-> FALSE]

NoStep == [op |-> "init", arg |-> 0, pre |-> "unloaded", res |-> "none",
           wrote |-> <<>>, got |-> {}, hist |-> NoHist, wire |-> <<>>, sent |-> NoChunks,
           from |-> NoChunks]

\* no position line was written yet
NoPosition == [pos |-> 0, proc |-> 0]

Init ==
    /\ state = "unloaded"
    /\ pendingPosition = 0
    /\ pendingDepth = 0
    /\ process = 0
    /\ exited = FALSE
    /\ spawns = 0
    /\ wire = <<>>
    /\ seen = {}
    /\ readyDue = FALSE
    /\ uciWait = "none"
    /\ waiters = {}
    /\ readyWaiters = {}
    /\ sinceGo = NoHist
    /\ quiet = FALSE
    /\ chunks = NoChunks
    /\ timer = FALSE
    /\ options = <<>>
    /\ received = <<>>
    /\ asked = 0
    /\ positionSent = NoPosition
    /\ origin = NoChunks
    /\ step = NoStep

(***************************************************************************)
(* Option lines of the handshake, as the sequence of their tokens, and the *)
(* pattern of uci():                                                       *)
(*   ^option\s+name\s+(.*?)\s+type\s+(\S+)                                 *)
(*    (?:\s+default\s+(\S+))?(?:\s+min\s+(\S+))?(?:\s+max\s+(\S+))?$        *)
(***************************************************************************)
\* the lines starting with `option ` that the child may print
OptionLines ==
    { <<"option", "name", "Hash", "type", "spin", "default", "16", "min", "1", "max", "1024">>,
      <<"option", "name", "Clear", "Hash", "type", "button">>,
      <<"option", "name", "Style", "type", "combo", "default", "Normal", "var", "Solid">>,
      <<"option", "name", "Threads", "type", "spin", "max", "8", "min", "1">>,
      <<"option", "name", "Ponder">> }

\* the keys of the optional groups that are present, in the order of the pattern
TailKeys(d, mn, mx) ==
    (IF d THEN <<"default">> ELSE <<>>) \o (IF mn THEN <<"min">> ELSE <<>>)
    \o (IF mx THEN <<"max">> ELSE <<>>)

\* rest is matched by the optional groups with keys `keys`, up to the `$`
TailIs(rest, keys) ==
    /\ Len(rest) = 2 * Len(keys)
    /\ \A i \in 1..Len(keys) : rest[2 * i - 1] = keys[i]

\* the value captured for key in rest ("undefined" when the group is absent)
Captured(rest, key) ==
    LET I == {i \in 1..Len(rest) : i % 2 = 1 /\ rest[i] = key}
    IN IF I = {} THEN "undefined" ELSE rest[(CHOOSE i \in I : \A j \in I : i <= j) + 1]

\* the indexes of a token `type` in tokens that the head of the pattern can
\* reach: a name of at least one token before it and one token after it
TypeAt(tokens) ==
    {k \in 4..(Len(tokens) - 1) :
        /\ tokens[1] = "option"
        /\ tokens[2] = "name"
        /\ tokens[k] = "type"}

\* the groups `default`, `min`, `max`, each optional, in this order, up to the `$`
OptionTail(rest) == \E d, mn, mx \in BOOLEAN : TailIs(rest, TailKeys(d, mn, mx))

\* parseInt of a token
ParseInt(token) ==
    IF token \in {"1", "8", "16", "1024"} THEN token
    ELSE IF token = "undefined" THEN "undefined" ELSE "NaN"

\* line.match(pattern) with a pattern whose tail is not anchored
matchOptionLoose(tokens) ==
    LET K == TypeAt(tokens)
    IN IF K = {} THEN <<>>
       ELSE LET k == CHOOSE i \in K : \A j \in K : i <= j
                rest == SubSeq(tokens, k + 2, Len(tokens))
            IN << [name |-> SubSeq(tokens, 3, k - 1), type |-> tokens[k + 1],
                   default |-> Captured(rest, "default"),
                   min |-> ParseInt(Captured(rest, "min")),
                   max |-> ParseInt(Captured(rest, "max"))] >>

\* line.match(pattern) and the object pushed to `options`: the options to add for
\* one line (none when the line does not match); the name is the shortest one
matchOption(tokens) ==
    LET K == {k \in TypeAt(tokens) : OptionTail(SubSeq(tokens, k + 2, Len(tokens)))}
    IN IF K = {} THEN <<>>
       ELSE LET k == CHOOSE i \in K : \A j \in K : i <= j
                rest == SubSeq(tokens, k + 2, Len(tokens))
            IN << [name |-> SubSeq(tokens, 3, k - 1), type |-> tokens[k + 1],
                   default |-> Captured(rest, "default"),
                   min |-> ParseInt(Captured(rest, "min")),
                   max |-> ParseInt(Captured(rest, "max"))] >>

(***************************************************************************)
(* The methods of UciEngine, as the effect of one call on the fields:      *)
(* st, pos, dep are the new #state, pendingPosition and pendingDepth,      *)
(* wrote the lines handed to send(), res the promise returned ("resolved", *)
(* "pending") or "throw", wait the once("bestmove") listeners added and    *)
(* ready the once("readyok") listeners added.  Listeners that belong to    *)
(* promises no property tells apart are kept once.                         *)
(***************************************************************************)
Same == [st |-> state, pos |-> pendingPosition, dep |-> pendingDepth,
         wrote |-> <<>>, res |-> "resolved", wait |-> {}, ready |-> {}]

\* a promise `new Promise(resolve => this.once("bestmove", resolve))` made by op
\* while the child is `process`; of says which search the caller asked about:
\* "cur" the one outstanding after the call, "next" the restart the call queued,
\* "none" when there is neither
Waiter(op, of) == [op |-> op, proc |-> process, of |-> of]

\* send(): throws when there is no process
CanSend == process # 0

\* the reader of start() hands lines to handleLine: there is a child, and it runs
Reading == process # 0 /\ ~exited

\* waitBestMovePromise() without the test of the state: always a new promise
waitAlways(op, st) == [res |-> "pending", wait |-> {Waiter(op, "cur")}]

\* waitBestMovePromise() that never waits
waitNever(op, st) == [res |-> "resolved", wait |-> {}]

\* waitBestMovePromise(), evaluated in engine state st
waitBestMovePromise(op, st) ==
    IF st \in Stopping
    THEN [res |-> "pending", wait |-> {Waiter(op, "cur")}]
    ELSE [res |-> "resolved", wait |-> {}]

\* the value of go() without the test of depth
goPromiseAlways(depth, of) == [res |-> "pending", wait |-> {Waiter("go", of)}]

\* the value go() returns: a promise on the next bestmove when depth is non-zero
goPromise(depth, of) ==
    IF depth # 0
    THEN [res |-> "pending", wait |-> {Waiter("go", of)}]
    ELSE [res |-> "resolved", wait |-> {}]

\* go() without its "running" case: a search is started whenever none is stopping
goWhileRunning(depth) ==
    CASE state \in {"idle", "running"} ->
           [Same EXCEPT !.st = "running", !.pos = 0, !.dep = 0,
                        !.wrote = SendPendingPosition(pendingPosition) \o <<GoLine(depth)>>,
                        !.res = goPromise(depth, "cur").res,
                        !.wait = goPromise(depth, "cur").wait]
      [] state \in Stopping ->
           [Same EXCEPT !.st = "waitingBestMoveToRun", !.dep = depth,
                        !.res = goPromise(depth, "next").res,
                        !.wait = goPromise(depth, "next").wait]
      [] OTHER ->
           [Same EXCEPT !.res = goPromise(depth, "none").res, !.wait = goPromise(depth, "none").wait]

\* go() that does not send the pending position
goSkipPosition(depth) ==
    CASE state = "idle" ->
           IF CanSend
           THEN [Same EXCEPT !.st = "running", !.pos = 0, !.dep = 0,
                             !.wrote = <<GoLine(depth)>>,
                             !.res = goPromise(depth, "cur").res,
                             !.wait = goPromise(depth, "cur").wait]
           ELSE [Same EXCEPT !.st = "running", !.res = "throw"]
      [] state = "running" -> Same
      [] state \in Stopping ->
           [Same EXCEPT !.st = "waitingBestMoveToRun", !.dep = depth,
                        !.res = goPromise(depth, "next").res,
                        !.wait = goPromise(depth, "next").wait]
      [] OTHER ->
           [Same EXCEPT !.res = goPromise(depth, "none").res, !.wait = goPromise(depth, "none").wait]

\* go() whose "running" case falls through to the promise on the next bestmove
goRunningPromise(depth) ==
    CASE state = "idle" ->
           IF CanSend
           THEN [Same EXCEPT !.st = "running", !.pos = 0, !.dep = 0,
                             !.wrote = SendPendingPosition(pendingPosition) \o <<GoLine(depth)>>,
                             !.res = goPromise(depth, "cur").res,
                             !.wait = goPromise(depth, "cur").wait]
           ELSE [Same EXCEPT !.st = "running", !.res = "throw"]
      [] state \in Stopping ->
           [Same EXCEPT !.st = "waitingBestMoveToRun", !.dep = depth,
                        !.res = goPromise(depth, "next").res,
                        !.wait = goPromise(depth, "next").wait]
      [] OTHER ->
           [Same EXCEPT !.res = goPromise(depth, "cur").res, !.wait = goPromise(depth, "cur").wait]

\* go() that is ignored while the answer to `stop` is awaited with no restart queued
goIgnoredWhileStopping(depth) ==
    CASE state = "idle" ->
           IF CanSend
           THEN [Same EXCEPT !.st = "running", !.pos = 0, !.dep = 0,
                             !.wrote = SendPendingPosition(pendingPosition) \o <<GoLine(depth)>>,
                             !.res = goPromise(depth, "cur").res,
                             !.wait = goPromise(depth, "cur").wait]
           ELSE [Same EXCEPT !.st = "running", !.res = "throw"]
      [] state = "running" -> Same
      [] state = "waitingBestMoveToRun" ->
           [Same EXCEPT !.dep = depth,
                        !.res = goPromise(depth, "next").res,
                        !.wait = goPromise(depth, "next").wait]
      [] OTHER ->
           [Same EXCEPT !.res = goPromise(depth, "none").res, !.wait = goPromise(depth, "none").wait]

\* go() that leaves the pending position stored after writing it
goKeepPosition(depth) ==
    CASE state = "idle" ->
           IF CanSend
           THEN [Same EXCEPT !.st = "running", !.dep = 0,
                             !.wrote = SendPendingPosition(pendingPosition) \o <<GoLine(depth)>>,
                             !.res = goPromise(depth, "cur").res,
                             !.wait = goPromise(depth, "cur").wait]
           ELSE [Same EXCEPT !.st = "running", !.res = "throw"]
      [] state = "running" -> Same
      [] state \in Stopping ->
           [Same EXCEPT !.st = "waitingBestMoveToRun", !.dep = depth,
                        !.res = goPromise(depth, "next").res,
                        !.wait = goPromise(depth, "next").wait]
      [] OTHER ->
           [Same EXCEPT !.res = goPromise(depth, "none").res, !.wait = goPromise(depth, "none").wait]

go(depth) ==
    CASE state = "idle" ->
           IF CanSend
           THEN [Same EXCEPT !.st = "running", !.pos = 0, !.dep = 0,
                             !.wrote = SendPendingPosition(pendingPosition) \o <<GoLine(depth)>>,
                             !.res = goPromise(depth, "cur").res,
                             !.wait = goPromise(depth, "cur").wait]
           ELSE [Same EXCEPT !.st = "running", !.res = "throw"]
      [] state = "running" -> Same
      [] state \in Stopping ->
           [Same EXCEPT !.st = "waitingBestMoveToRun", !.dep = depth,
                        !.res = goPromise(depth, "next").res,
                        !.wait = goPromise(depth, "next").wait]
      [] OTHER ->
           [Same EXCEPT !.res = goPromise(depth, "none").res, !.wait = goPromise(depth, "none").wait]

\* the promise stop() and position() return after their switch left effect sw
withBestMovePromise(op, sw) ==
    IF sw.res = "throw" THEN sw
    ELSE [sw EXCEPT !.res = waitBestMovePromise(op, sw.st).res,
                    !.wait = waitBestMovePromise(op, sw.st).wait]

\* stop() that writes `stop` again when a restart was queued
stopAgain ==
    withBestMovePromise("stop",
        CASE state \in {"running", "waitingBestMoveToRun"} ->
               [Same EXCEPT !.st = "waitingBestMoveToIdle", !.wrote = << <<"stop", 0>> >>]
          [] OTHER -> Same)

\* stop() that leaves a queued restart in place
stopKeepsRestart ==
    withBestMovePromise("stop",
        CASE state = "running" ->
               IF CanSend
               THEN [Same EXCEPT !.st = "waitingBestMoveToIdle", !.wrote = << <<"stop", 0>> >>]
               ELSE [Same EXCEPT !.st = "waitingBestMoveToIdle", !.res = "throw"]
          [] OTHER -> Same)

\* stop() that does not wait for the bestmove: the state is idle at once
stopSetsIdle ==
    withBestMovePromise("stop",
        CASE state = "running" ->
               IF CanSend
               THEN [Same EXCEPT !.st = "idle", !.wrote = << <<"stop", 0>> >>]
               ELSE [Same EXCEPT !.st = "idle", !.res = "throw"]
          [] state = "waitingBestMoveToRun" -> [Same EXCEPT !.st = "waitingBestMoveToIdle"]
          [] OTHER -> Same)

stop ==
    withBestMovePromise("stop",
        CASE state = "running" ->
               IF CanSend
               THEN [Same EXCEPT !.st = "waitingBestMoveToIdle", !.wrote = << <<"stop", 0>> >>]
               ELSE [Same EXCEPT !.st = "waitingBestMoveToIdle", !.res = "throw"]
          [] state = "waitingBestMoveToRun" -> [Same EXCEPT !.st = "waitingBestMoveToIdle"]
          [] OTHER -> Same)

\* position() that keeps a string already pending
positionKeepFirst(str) ==
    LET kept == IF pendingPosition # 0 THEN pendingPosition ELSE str
    IN withBestMovePromise("position",
        CASE state = "waitingBestMoveToIdle" ->
               [Same EXCEPT !.pos = kept, !.st = "waitingBestMoveToRun"]
          [] state = "running" ->
               [Same EXCEPT !.pos = kept, !.wrote = << <<"stop", 0>> >>,
                            !.st = "waitingBestMoveToRun"]
          [] OTHER -> [Same EXCEPT !.pos = kept])

\* position() that writes the position line at once while a search runs
positionSendsNow(str) ==
    withBestMovePromise("position",
        CASE state = "waitingBestMoveToIdle" ->
               [Same EXCEPT !.pos = str, !.st = "waitingBestMoveToRun"]
          [] state = "running" ->
               [Same EXCEPT !.pos = str, !.wrote = <<PositionLine(str), <<"stop", 0>> >>,
                            !.st = "waitingBestMoveToRun"]
          [] OTHER -> [Same EXCEPT !.pos = str])

position(str) ==
    withBestMovePromise("position",
        CASE state = "waitingBestMoveToIdle" ->
               [Same EXCEPT !.pos = str, !.st = "waitingBestMoveToRun"]
          [] state = "running" ->
               IF CanSend
               THEN [Same EXCEPT !.pos = str, !.wrote = << <<"stop", 0>> >>,
                                 !.st = "waitingBestMoveToRun"]
               ELSE [Same EXCEPT !.pos = str, !.res = "throw"]
          [] OTHER -> [Same EXCEPT !.pos = str])

\* setOption() without the test of the state
setOptionAnyState ==
    IF CanSend THEN [Same EXCEPT !.wrote = << <<"setoption", 0>> >>, !.res = "none"]
    ELSE [Same EXCEPT !.res = "throw"]

setOption ==
    IF state # "idle" THEN [Same EXCEPT !.res = "throw"]
    ELSE IF CanSend THEN [Same EXCEPT !.wrote = << <<"setoption", 0>> >>, !.res = "none"]
    ELSE [Same EXCEPT !.res = "throw"]

\* isready(): send("isready"), then a promise on once("readyok")
isready == [wrote |-> << <<"isready", 0>> >>, res |-> "pending",
            ready |-> {[op |-> "newGame", proc |-> process]}]

\* newGame(): `if (this.state === "running") await this.stop()`, then ucinewgame and
\* isready(); when it awaits, the rest runs when the promise of stop() resolves
newGame ==
    IF state = "running"
    THEN [stop EXCEPT !.wait = IF stop.res = "pending" THEN {Waiter("newGame", "cur")} ELSE {}]
    ELSE IF CanSend
         THEN [Same EXCEPT !.wrote = << <<"ucinewgame", 0>> >> \o isready.wrote,
                           !.res = isready.res, !.ready = isready.ready]
         ELSE [Same EXCEPT !.res = "throw"]

\* handleBestMove() that writes the `go` of the restart before the pending position
handleBestMoveGoFirst ==
    CASE state = "idle" -> [Same EXCEPT !.res = "throw"]
      [] state \in {"running", "waitingBestMoveToIdle"} ->
           [Same EXCEPT !.st = "idle", !.dep = 0, !.pos = 0, !.res = "none"]
      [] state = "waitingBestMoveToRun" ->
           [Same EXCEPT !.st = "running", !.pos = 0, !.dep = 0, !.res = "none",
                        !.wrote = <<GoLine(pendingDepth)>> \o SendPendingPosition(pendingPosition)]
      [] OTHER -> [Same EXCEPT !.res = "none"]

\* handleBestMove() that keeps what is pending when the search ends
handleBestMoveKeepPending ==
    CASE state = "idle" -> [Same EXCEPT !.res = "throw"]
      [] state \in {"running", "waitingBestMoveToIdle"} ->
           [Same EXCEPT !.st = "idle", !.res = "none"]
      [] state = "waitingBestMoveToRun" ->
           [Same EXCEPT !.st = "running", !.pos = 0, !.dep = 0, !.res = "none",
                        !.wrote = SendPendingPosition(pendingPosition) \o <<GoLine(pendingDepth)>>]
      [] OTHER -> [Same EXCEPT !.res = "none"]

\* handleBestMove(): the state change on a bestmove line
handleBestMove ==
    CASE state = "idle" -> [Same EXCEPT !.res = "throw"]
      [] state \in {"running", "waitingBestMoveToIdle"} ->
           [Same EXCEPT !.st = "idle", !.dep = 0, !.pos = 0, !.res = "none"]
      [] state = "waitingBestMoveToRun" ->
           [Same EXCEPT !.st = "running", !.pos = 0, !.dep = 0, !.res = "none",
                        !.wrote = SendPendingPosition(pendingPosition) \o <<GoLine(pendingDepth)>>]
      [] OTHER -> [Same EXCEPT !.res = "none"]

(***************************************************************************)
(* History kept for the properties: who wrote the last `go` line (a go()   *)
(* call, or the restart in handleBestMove), which of go and stop were      *)
(* called since, the last string handed to position() since, and whether   *)
(* that call replaced another string handed to position() since.           *)
(***************************************************************************)
Noted(op, arg, wrote) ==
    IF GoLines(wrote) # <<>>
    THEN [NoHist EXCEPT !.by = IF op = "go" THEN "go" ELSE "restart"]
    ELSE IF op \in {"go", "stop"} THEN [sinceGo EXCEPT !.ops = @ \cup {op}]
    ELSE IF op = "position"
         THEN [sinceGo EXCEPT !.pos = arg, !.over = (@ \/ sinceGo.pos \notin {0, arg})]
    ELSE IF op = "bestmove" THEN NoHist
    ELSE sinceGo

\* what the last step was: op(arg) handled in engine state pre, its result res and
\* the lines it wrote; for a bestmove line also the promises it resolved, and the
\* history and the wire before it; sent is the batch handed to the consumer
Did(op, arg, res, wrote, got) ==
    [op |-> op, arg |-> arg, pre |-> state, res |-> res, wrote |-> wrote, got |-> got,
     hist |-> IF op = "bestmove" THEN sinceGo ELSE NoHist,
     wire |-> IF op = "bestmove" THEN wire ELSE <<>>,
     sent |-> NoChunks, from |-> NoChunks]

(***************************************************************************)
(* The listeners main/index.ts attaches to the engine (lines 102-126).     *)
(***************************************************************************)
\* flush(): the batch sent to the window and the buffer left
flush == [sent |-> chunks, chunks |-> NoChunks]

\* engine.on("stateChange"): the setter of state emits when the state changes, and
\* the listener arms the interval anew when the new state is "running"
onStateChange(new, armed) == IF new # state /\ new = "running" THEN TRUE ELSE armed

\* engine.on("bestmove") that leaves the interval armed
onBestMoveKeepTimer == [sent |-> flush.sent, chunks |-> flush.chunks, timer |-> timer]

\* engine.on("bestmove"): clearInterval, flush
onBestMove == [sent |-> flush.sent, chunks |-> flush.chunks, timer |-> FALSE]

\* sendPendingPosition(): the last position line written and emitted once the
\* lines of seq are written to the current child
Sent(seq) ==
    LET P == Lines(seq, "position")
    IN IF P = <<>> THEN positionSent ELSE [pos |-> P[Len(P)][2], proc |-> process]

\* the position the current child searches: the one of the last position line
\* written to it, and the start position (0) when none was
Searched == IF positionSent.proc = process THEN positionSent.pos ELSE 0

\* a promise of newGame() made for the current child is pending
NewGamePending ==
    \E w \in waiters \cup readyWaiters : w.op = "newGame" /\ w.proc = process

\* a call of a public method with effect e, from the event loop: what it does to
\* the engine and to the listeners
Method(op, arg, e) ==
    /\ state' = e.st
    /\ pendingPosition' = e.pos
    /\ pendingDepth' = e.dep
    /\ wire' = wire \o Search(e.wrote)
    /\ readyDue' = (readyDue \/ "isready" \in Handshake(e.wrote))
    /\ waiters' = waiters \cup e.wait
    /\ readyWaiters' = readyWaiters \cup e.ready
    /\ sinceGo' = Noted(op, arg, e.wrote)
    /\ quiet' = (op = "newGame" /\ state # "unloaded" /\ e.res = "pending" /\ ~NewGamePending)
    /\ timer' = onStateChange(e.st, timer)
    /\ step' = Did(op, arg, e.res, e.wrote, {})
    /\ UNCHANGED <<options, received, process, exited, spawns, seen, uciWait, chunks, origin>>

\* a call of a public method, where the position lines are not followed
Call(op, arg, e) == Method(op, arg, e) /\ UNCHANGED <<asked, positionSent>>

\* a call of a public method, with the strings handed to position() and the
\* position lines written followed
TracedCall(op, arg, e) ==
    /\ Method(op, arg, e)
    /\ asked' = IF op = "position" /\ process # 0 THEN arg ELSE asked
    /\ positionSent' = Sent(e.wrote)

Go(depth) == Call("go", depth, go(depth))

Stop == Call("stop", 0, stop)

Position(str) == Call("position", str, position(str))

SetOption == Call("setOption", 0, setOption)

NewGame == Call("newGame", 0, newGame)

TracedGo(depth) == TracedCall("go", depth, go(depth))

TracedStop == TracedCall("stop", 0, stop)

TracedPosition(str) == TracedCall("position", str, position(str))

\* kill() that does not assign the state
KillKeepsState ==
    /\ process' = 0
    /\ exited' = FALSE
    /\ readyDue' = FALSE
    /\ quiet' = FALSE
    /\ asked' = 0
    /\ step' = Did("kill", 0, "none", <<>>, {})
    /\ UNCHANGED <<positionSent, origin, options, received, state, pendingPosition,
                   pendingDepth, spawns, wire, seen, uciWait, waiters, readyWaiters,
                   sinceGo, chunks, timer>>

\* kill(): close the reader, kill the child, forget it, state "unloaded"
Kill ==
    /\ process' = 0
    /\ exited' = FALSE
    /\ state' = "unloaded"
    /\ readyDue' = FALSE
    /\ quiet' = FALSE
    /\ asked' = 0
    /\ step' = Did("kill", 0, "none", <<>>, {})
    /\ UNCHANGED <<positionSent, origin, options, received, pendingPosition, pendingDepth,
                   spawns, wire, seen, uciWait, waiters, readyWaiters, sinceGo, chunks,
                   timer>>

\* start() that sets the state before `uciok` is read
SpawnIdle ==
    /\ spawns' = spawns + 1
    /\ process' = spawns + 1
    /\ exited' = FALSE
    /\ state' = "idle"
    /\ wire' = <<>>
    /\ seen' = Handshake(StartLines)
    /\ readyDue' = FALSE
    /\ uciWait' = "waiting"
    /\ sinceGo' = NoHist
    /\ quiet' = FALSE
    /\ options' = <<>>
    /\ received' = <<>>
    /\ asked' = 0
    /\ step' = Did("start", 0, "pending", StartLines, {})
    /\ UNCHANGED <<positionSent, origin, pendingPosition, pendingDepth, waiters,
                   readyWaiters, chunks, timer>>

\* start(): kill(), spawn, attach handleLine, then uci(): sendAndWaitFor("uci", ...)
Spawn ==
    /\ spawns' = spawns + 1
    /\ process' = spawns + 1
    /\ exited' = FALSE
    /\ state' = "unloaded"
    /\ wire' = <<>>
    /\ seen' = Handshake(StartLines)
    /\ readyDue' = FALSE
    /\ uciWait' = "waiting"
    /\ sinceGo' = NoHist
    /\ quiet' = FALSE
    /\ options' = <<>>
    /\ received' = <<>>
    /\ asked' = 0
    /\ step' = Did("start", 0, "pending", StartLines, {})
    /\ UNCHANGED <<positionSent, origin, pendingPosition, pendingDepth, waiters,
                   readyWaiters, chunks, timer>>

\* the first start() of the session
Start == spawns = 0 /\ Spawn

\* a later start(), replacing the child
Restart == spawns \in 1..(MaxProc - 1) /\ Spawn

\* `uciok` that lets uci() go on after its promise was rejected by the timer
UciOkAfterTimeout ==
    /\ Reading
    /\ uciWait \in {"waiting", "timedout"}
    /\ uciWait' = IF uciWait = "waiting" THEN "done" ELSE "late"
    /\ state' = "idle"
    /\ seen' = seen \cup {"uciok"}
    /\ step' = Did("uciok", 0, "none", <<>>, {})
    /\ UNCHANGED <<asked, positionSent, origin, options, received, pendingPosition,
                   pendingDepth, process, exited, spawns, wire, readyDue, waiters,
                   readyWaiters, sinceGo, quiet, chunks, timer>>

\* the child prints `uciok`: handleOutput of sendAndWaitFor resolves, and uci()
\* goes on with `this.state = "idle"`; after the timeout resolve() does nothing
UciOk ==
    /\ Reading
    /\ uciWait \in {"waiting", "timedout"}
    /\ uciWait' = IF uciWait = "waiting" THEN "done" ELSE "late"
    /\ state' = IF uciWait = "waiting" THEN "idle" ELSE state
    /\ seen' = seen \cup {"uciok"}
    /\ step' = Did("uciok", 0, "none", <<>>, {})
    /\ UNCHANGED <<asked, positionSent, origin, options, received, pendingPosition,
                   pendingDepth, process, exited, spawns, wire, readyDue, waiters,
                   readyWaiters, sinceGo, quiet, chunks, timer>>

\* the child prints a line that starts with `option `: handleOutput of
\* sendAndWaitFor, which stays attached to the reader, hands it to onOutput of uci()
OptionLine(tokens) ==
    /\ Reading
    /\ Len(received) < MaxOptions
    /\ options' = options \o matchOption(tokens)
    /\ received' = Append(received, tokens)
    /\ step' = Did("option", 0, "none", <<>>, {})
    /\ UNCHANGED <<asked, positionSent, origin, state, pendingPosition, pendingDepth,
                   process, exited, spawns, wire, seen, readyDue, uciWait, waiters,
                   readyWaiters, sinceGo, quiet, chunks, timer>>

\* the timer of sendAndWaitFor fires before `uciok`: the promise of uci() rejects
UciTimeout ==
    /\ uciWait = "waiting"
    /\ uciWait' = "timedout"
    /\ step' = Did("timeout", 0, "throw", <<>>, {})
    /\ UNCHANGED <<asked, positionSent, origin, options, received, state, pendingPosition,
                   pendingDepth, process, exited, spawns, wire, seen, readyDue, waiters,
                   readyWaiters, sinceGo, quiet, chunks, timer>>

\* a `stop` line was written and no bestmove was read since
StopOutstanding == Lines(wire, "stop") # <<>>

\* the lines the rest of newGame() writes once its stop() resolved, for the
\* newGame() calls among the promises in got
RestOfNewGame(got) ==
    IF \E w \in got : w.op = "newGame"
    THEN [wrote |-> << <<"ucinewgame", 0>> >> \o isready.wrote, ready |-> isready.ready]
    ELSE [wrote |-> <<>>, ready |-> {}]

\* the lines written in the turn in which a bestmove line is read
BestMoveWrote == handleBestMove.wrote \o RestOfNewGame(waiters).wrote

\* handleLine() on a well-formed `bestmove` line: emit("bestmove") resolves every
\* promise waiting on it, then handleBestMove(); the awaiting newGame() calls go on
ReadBestMove ==
    /\ Reading
    /\ LET e == handleBestMove
           rest == RestOfNewGame(waiters)
           out == e.wrote \o rest.wrote
       IN /\ state' = e.st
          /\ pendingPosition' = e.pos
          /\ pendingDepth' = e.dep
          /\ wire' = Search(out)
          /\ readyDue' = (readyDue \/ "isready" \in Handshake(out))
          /\ waiters' = {}
          /\ readyWaiters' = readyWaiters \cup rest.ready
          /\ sinceGo' = Noted("bestmove", 0, e.wrote)
          /\ chunks' = onBestMove.chunks
          /\ origin' = NoChunks
          /\ timer' = onStateChange(e.st, onBestMove.timer)
          /\ step' = [Did("bestmove", 0, e.res, out, waiters)
                         EXCEPT !.sent = onBestMove.sent, !.from = origin]
    /\ UNCHANGED <<options, received, process, exited, spawns, seen, uciWait, quiet, asked>>

\* a bestmove line, where the position lines are not followed
BestMove == ReadBestMove /\ UNCHANGED positionSent

\* a bestmove line, with the position lines written followed
TracedBestMove == ReadBestMove /\ positionSent' = Sent(BestMoveWrote)

\* handleLine() on `readyok`: emit("readyok") resolves every isready() promise
ReadyOk ==
    /\ Reading
    /\ readyDue
    /\ readyDue' = FALSE
    /\ readyWaiters' = {}
    /\ step' = Did("readyok", 0, "none", <<>>, {})
    /\ UNCHANGED <<asked, positionSent, origin, options, received, state, pendingPosition,
                   pendingDepth, process, exited, spawns, wire, seen, uciWait, waiters,
                   sinceGo, quiet, chunks, timer>>

\* handleLine() on a line that starts with `bestmove` and that parseBestMove()
\* cannot parse: it throws before emit("bestmove") is called, so no listener runs
\* and handleBestMove() is not reached
BadBestMove ==
    /\ Reading
    /\ step' = Did("badbestmove", 0, "throw", <<>>, {})
    /\ UNCHANGED <<asked, positionSent, origin, options, received, state, pendingPosition,
                   pendingDepth, process, exited, spawns, wire, seen, readyDue, uciWait,
                   waiters, readyWaiters, sinceGo, quiet, chunks, timer>>

\* the child exits by itself: start() listens to no exit or close event, so the
\* engine keeps its fields and its listeners
Exit ==
    /\ Reading
    /\ exited' = TRUE
    /\ step' = Did("exit", 0, "none", <<>>, {})
    /\ UNCHANGED <<asked, positionSent, origin, options, received, state, pendingPosition,
                   pendingDepth, process, spawns, wire, seen, readyDue, uciWait, waiters,
                   readyWaiters, sinceGo, quiet, chunks, timer>>

\* handleLine() on an `info depth` line: emit("info"), and the listener of
\* main/index.ts stores the record under the first move of its pv (move 0: the
\* line has no pv, and nothing is stored)
Info(move, depth) ==
    /\ Reading
    /\ chunks' = IF move # 0 THEN [chunks EXCEPT ![move] = depth] ELSE chunks
    /\ step' = Did("info", <<move, depth>>, "none", <<>>, {})
    /\ UNCHANGED <<origin, asked, positionSent, options, received, state, pendingPosition,
                   pendingDepth, process, exited, spawns, wire, seen, readyDue, uciWait,
                   waiters, readyWaiters, sinceGo, quiet, timer>>

\* an `info depth` line of a child that prints them during a search only: a go
\* line was written to it since the last bestmove; the record stored is one of the
\* search on the position the child has
SearchInfo(move, depth) ==
    /\ Reading
    /\ GoLines(wire) # <<>>
    /\ chunks' = IF move # 0 THEN [chunks EXCEPT ![move] = depth] ELSE chunks
    /\ origin' = IF move # 0 THEN [origin EXCEPT ![move] = Searched] ELSE origin
    /\ step' = Did("info", <<move, depth>>, "none", <<>>, {})
    /\ UNCHANGED <<asked, positionSent, options, received, state, pendingPosition,
                   pendingDepth, process, exited, spawns, wire, seen, readyDue, uciWait,
                   waiters, readyWaiters, sinceGo, quiet, timer>>

\* mainWindow.on("closed"): clearInterval(engineOutputTimeout), engine.kill()
Closed ==
    /\ timer' = FALSE
    /\ process' = 0
    /\ exited' = FALSE
    /\ state' = "unloaded"
    /\ readyDue' = FALSE
    /\ quiet' = FALSE
    /\ asked' = 0
    /\ step' = Did("closed", 0, "none", <<>>, {})
    /\ UNCHANGED <<positionSent, origin, options, received, pendingPosition, pendingDepth,
                   spawns, wire, seen, uciWait, waiters, readyWaiters, sinceGo, chunks>>

\* the interval of main/index.ts fires: flush()
Tick ==
    /\ timer
    /\ chunks' = flush.chunks
    /\ origin' = NoChunks
    /\ step' = [Did("tick", 0, "none", <<>>, {}) EXCEPT !.sent = flush.sent, !.from = origin]
    /\ UNCHANGED <<asked, positionSent, options, received, state, pendingPosition,
                   pendingDepth, process, exited, spawns, wire, seen, readyDue, uciWait,
                   waiters, readyWaiters, sinceGo, quiet, timer>>

\* what the caller and the child may do at any time
Session ==
    \/ \E depth \in Depths : Go(depth)
    \/ Stop
    \/ \E str \in Positions : Position(str)
    \/ SetOption
    \/ NewGame
    \/ Kill
    \/ UciOk
    \/ UciTimeout
    \/ BestMove
    \/ ReadyOk

\* one engine process: start() is called once
Next == Start \/ Session

Spec == Init /\ [][Next]_vars

\* the session with a child that may exit and may print a malformed bestmove line
NextFault == Next \/ BadBestMove \/ Exit

FaultSpec == Init /\ [][NextFault]_vars

\* the ipc handlers of main/index.ts (lines 95-100): go() is called with no depth
Ipc ==
    \/ Go(0)
    \/ Stop
    \/ \E str \in Positions : Position(str)
    \/ SetOption
    \/ NewGame

\* the main process: the ipc handlers, the lines of the child with its info lines,
\* and the interval of the output
NextOutput ==
    \/ Start
    \/ Ipc
    \/ UciOk
    \/ UciTimeout
    \/ BestMove
    \/ ReadyOk
    \/ \E move \in 0..NumMoves, depth \in InfoDepths : Info(move, depth)
    \/ Tick

OutputSpec == Init /\ [][NextOutput]_vars

\* the handshake of start(), with the option lines of the child
NextHandshake ==
    \/ Start
    \/ \E tokens \in OptionLines : OptionLine(tokens)
    \/ UciOk
    \/ UciTimeout

HandshakeSpec == Init /\ [][NextHandshake]_vars

\* start() may be called again, up to MaxProc children
NextRestart == Start \/ Restart \/ Session

SpecRestart == Init /\ [][NextRestart]_vars

\* a child that prints one bestmove line for each go line it gets and none
\* otherwise: a bestmove is read only when a go line was written to the child
\* since the last one
AnswerGo == GoLines(wire) # <<>> /\ BestMove

\* the calls the ipc handlers make, start() among them any number of times,
\* kill(), and a child that answers go lines only
NextBehaved ==
    \/ Start
    \/ Restart
    \/ Ipc
    \/ Kill
    \/ UciOk
    \/ AnswerGo

BehavedSpec == Init /\ [][NextBehaved]_vars

\* a child that answers go lines only, with the position lines followed
SearchEnds == GoLines(wire) # <<>> /\ TracedBestMove

\* the main process over the children it spawns: the ipc handlers of an analysis
\* (start, any number of times, go, stop, position), the window, the interval, and
\* children that answer go lines and print info lines while they search
NextLifetimes ==
    \/ Start
    \/ Restart
    \/ Closed
    \/ TracedGo(0)
    \/ TracedStop
    \/ \E str \in Positions : TracedPosition(str)
    \/ UciOk
    \/ SearchEnds
    \/ \E move \in 0..NumMoves, depth \in InfoDepths : SearchInfo(move, depth)
    \/ Tick

LifetimesSpec == Init /\ [][NextLifetimes]_vars

\* the child answers a `stop` line with a bestmove line
AnswerStop == StopOutstanding /\ BestMove

\* Spec, with a child that answers every `stop`
FairSpec == Spec /\ WF_vars(AnswerStop)

\* Spec, with a child that answers every `stop` and timers that fire: the only
\* timer the engine arms is the one of sendAndWaitFor
TimedSpec == Spec /\ WF_vars(AnswerStop) /\ WF_vars(UciTimeout)

(***************************************************************************)
(* Properties.                                                             *)
(***************************************************************************)
\* the lines of seq after its last `go` line (all of seq when it has none)
AfterLastGo(seq) ==
    LET I == {i \in 1..Len(seq) : IsGo(seq[i])}
        last == IF I = {} THEN 0 ELSE CHOOSE i \in I : \A j \in I : j <= i
    IN SubSeq(seq, last + 1, Len(seq))

\* C1: the child never gets two `go` lines without a bestmove line read between
\* them: at most one `go` line was written since the last bestmove was read.
C1_OneSearchOutstanding == Len(GoLines(wire)) <= 1

\* a bestmove was read while a restart was queued, and the restart wrote its `go`
C1_Witness ==
    /\ step.op = "bestmove"
    /\ step.pre = "waitingBestMoveToRun"
    /\ GoLines(step.wire) # <<>>
    /\ Len(GoLines(wire)) = 1

\* C2: between a `go` line and the next bestmove read at most one `stop` line is
\* written; stop() and position() called while a stop is awaited write nothing.
C2_OneStopPerSearch ==
    /\ Len(Lines(AfterLastGo(wire), "stop")) <= 1
    /\ (step.op \in {"stop", "position"} /\ step.pre \in Stopping) => step.wrote = <<>>

\* stop() or position() was called again while the answer to `stop` was awaited
C2_Witness ==
    /\ step.op \in {"stop", "position"}
    /\ step.pre \in Stopping
    /\ process # 0
    /\ Len(GoLines(wire)) = 1
    /\ Len(Lines(AfterLastGo(wire), "stop")) = 1

\* C3: when position() was called (and stop() was not) while a search was
\* outstanding, the next bestmove finds the restart queued and writes exactly one
\* position line, which carries the string of the latest position() call.
C3_LatestPositionWins ==
    (/\ step.op = "bestmove"
     /\ step.hist.by # "none"
     /\ step.hist.pos # 0
     /\ "stop" \notin step.hist.ops)
    => /\ step.pre = "waitingBestMoveToRun"
       /\ Lines(step.wrote, "position") = <<PositionLine(step.hist.pos)>>

\* go() while idle, then position() with two different strings, then the bestmove
C3_Witness ==
    /\ step.op = "bestmove"
    /\ step.hist.by = "go"
    /\ step.hist.over
    /\ step.hist.ops = {}
    /\ Lines(step.wrote, "position") = <<PositionLine(step.hist.pos)>>

\* C4: after go(depth) with a depth while idle and then only position() calls, the
\* `go` line written on the next bestmove is the `go depth` line of that search.
C4_DepthKept ==
    (/\ step.op = "bestmove"
     /\ step.hist.by = "go"
     /\ step.hist.ops = {}
     /\ step.hist.pos # 0
     /\ GoLines(step.wire) # <<>>
     /\ GoLines(step.wire)[1][1] = "go depth")
    => GoLines(step.wrote) = GoLines(step.wire)

\* C5: a bestmove read while the state is waitingBestMoveToRun (the bestmove of
\* a superseded search) resolves no promise of go().
C5_GoPromiseOwnSearch ==
    (step.op = "bestmove" /\ step.pre = "waitingBestMoveToRun") =>
        \A w \in step.got : w.op # "go"

\* C6: setOption() outside idle throws, writes nothing and changes neither the
\* state nor what is pending; while idle it writes one setoption line and the
\* state stays idle.
C6_SetOptionOnlyIdle ==
    [][step'.op = "setOption" =>
         IF state # "idle"
         THEN /\ step'.res = "throw"
              /\ step'.wrote = <<>>
              /\ UNCHANGED <<state, pendingPosition, pendingDepth, wire, waiters,
                             readyWaiters>>
         ELSE /\ step'.wrote = << <<"setoption", 0>> >>
              /\ state' = "idle"]_vars

\* setOption() was refused while a search ran
C6_Witness == step.op = "setOption" /\ step.pre = "running" /\ step.res = "throw"

\* C7: stop() and position() called while idle return a resolved promise, write
\* nothing and leave the state idle.
C7_IdleStopPositionResolved ==
    (step.op \in {"stop", "position"} /\ step.pre = "idle")
    => (step.res = "resolved" /\ step.wrote = <<>> /\ state = "idle")

\* stop() was called while idle
C7_Witness == step.op = "stop" /\ step.pre = "idle" /\ process # 0

\* C8: go() with a non-zero depth while idle returns a promise that stays pending
\* until a bestmove line is read, which resolves it; go() with depth 0 returns a
\* resolved promise in every state.
C8_GoPromise ==
    /\ [](step.op = "go" =>
            /\ (step.arg = 0 => step.res = "resolved")
            /\ (step.arg # 0 /\ step.pre = "idle") =>
                   (step.res = "pending" /\ Waiter("go", "cur") \in waiters))
    /\ [][/\ \A w \in waiters :
                w.op = "go" => (w \in waiters' \/ (step'.op = "bestmove" /\ w \in step'.got))
          /\ step'.op = "bestmove" => (step'.got = waiters /\ waiters' = {})]_vars

\* the bestmove of a search started by go() with a depth resolved its promise
C8_Witness ==
    /\ step.op = "bestmove"
    /\ step.pre = "running"
    /\ step.hist.by = "go"
    /\ \E w \in step.got : w.op = "go" /\ w.of = "cur"

\* the promises stop() and position() make while the child is the first one
StopWaiters == {[op |-> o, proc |-> 1, of |-> "cur"] : o \in {"stop", "position"}}

\* C9: a promise returned by stop() or position() while running or stopping stays
\* pending until a bestmove line is read and is resolved by the first one read;
\* when the child answers every `stop`, it is resolved as long as the child lives.
C9_StopPromise ==
    /\ []((step.op \in {"stop", "position"} /\ step.pre \in {"running"} \cup Stopping) =>
            (step.res = "pending" /\ Waiter(step.op, "cur") \in waiters))
    /\ [][/\ \A w \in waiters :
                w.op \in {"stop", "position"} =>
                    (w \in waiters' \/ (step'.op = "bestmove" /\ w \in step'.got))
          /\ step'.op = "bestmove" => (step'.got = waiters /\ waiters' = {})]_vars
    /\ \A w \in StopWaiters :
            (w \in waiters /\ process # 0) ~> (w \notin waiters \/ process = 0)

\* a bestmove resolved a promise of stop() or position()
C9_Witness ==
    /\ step.op = "bestmove"
    /\ step.pre \in Stopping
    /\ \E w \in step.got : w.op \in {"stop", "position"}

C11_TimeoutStaysUnloaded ==
    /\ step.op = "timeout" => (step.res = "throw" /\ uciWait = "timedout")
    /\ uciWait \in {"timedout", "late"} => state = "unloaded"

\* `uciok` was read after the timer had fired
C11_Witness ==
    /\ step.op = "uciok"
    /\ uciWait = "late"
    /\ process # 0
    /\ state = "unloaded"

\* C12: a promise of newGame() waiting for `readyok` does not stay pending for
\* ever while the child is kept: it is settled (by `readyok`, or by a timeout
\* error) also when the child never prints `readyok`.
C12_NewGameSettles ==
    (readyWaiters # {} /\ process # 0) ~> (readyWaiters = {} \/ process = 0)

\* C13: when the child exits after the handshake, no promise that go(), stop(),
\* position() or newGame() made about a search of that child, and no promise of
\* newGame() waiting for its `readyok`, stays pending: they are rejected.
C13_ExitRejects ==
    (step.op = "exit" /\ uciWait = "done") =>
        /\ \A w \in waiters : (w.proc = process => w.of = "none")
        /\ \A w \in readyWaiters : w.proc # process

\* C14: `ucinewgame` is never written while a search is outstanding: when a step
\* wrote it, no `go` line is waiting for its bestmove.
C14_NewGameNoSearch ==
    Lines(step.wrote, "ucinewgame") # <<>> => GoLines(wire) = <<>>

\* C15: when `readyok` resolves the promise of a newGame() that was called while
\* idle, running or stopping, with no other call since, the state is idle.
C15_NewGameEndsIdle == (step.op = "readyok" /\ quiet) => state = "idle"

\* C16: while a search runs, an info line whose first pv move is already buffered
\* replaces the buffered record only if its depth is not less: the depth buffered
\* for a move never decreases between two flushes.
C16_DepthMonotonic ==
    [][(step'.op = "info" /\ state = "running") =>
          \A m \in Moves : (chunks[m] # 0 /\ chunks'[m] # 0) => chunks'[m] >= chunks[m]]_vars

\* C17: a bestmove event hands the whole buffer to the consumer, leaves it empty
\* and cancels the interval, which is armed afterwards only when the handler wrote
\* the `go` of a queued restart; the interval delivers a batch only when a `go`
\* line was written since the last bestmove read.
C17_FlushOnBestMove ==
    /\ [][step'.op = "bestmove" =>
            /\ step'.sent = chunks
            /\ chunks' = NoChunks
            /\ timer' => GoLines(step'.wrote) # <<>>]_vars
    /\ []((step.op = "tick" /\ step.sent # NoChunks) => GoLines(wire) # <<>>)

\* a bestmove that ended the search delivered a batch and cancelled the interval
C17_Witness ==
    /\ step.op = "bestmove"
    /\ step.pre = "running"
    /\ step.sent # NoChunks
    /\ chunks = NoChunks
    /\ ~timer

\* C18: a position() call that supersedes the running search empties the buffer:
\* the records buffered before it are discarded.
C18_PositionEmptiesBuffer ==
    (step.op = "position" /\ step.pre = "running") => chunks = NoChunks

\* C19: kill() in any state leaves the state unloaded and no process, and raises
\* no error; a kill() that follows a kill() changes no field of the engine, so the
\* setter of state emits no stateChange.
C19_KillIdempotent ==
    [][step'.op = "kill" =>
          /\ state' = "unloaded"
          /\ process' = 0
          /\ step'.res = "none"
          /\ step.op = "kill" =>
                UNCHANGED <<state, pendingPosition, pendingDepth, process, exited, spawns,
                            wire, seen, readyDue, uciWait, waiters, readyWaiters, chunks,
                            timer>>]_vars

\* kill() was called when the engine had been killed after its handshake
C19_Witness ==
    /\ step.op = "kill"
    /\ step.pre = "unloaded"
    /\ uciWait = "done"
    /\ process = 0

\* C20: after a line that starts with `bestmove` and cannot be parsed, no promise
\* that go(), stop() or position() made about a search is left pending: they are
\* rejected.
C20_BadBestMoveRejects ==
    step.op = "badbestmove" =>
        \A w \in waiters : (w.op \in {"go", "stop", "position"} => w.of = "none")

\* the position and go lines among seq
PositionAndGo(seq) ==
    SelectSeq(seq, LAMBDA l : l[1] \in {"position", "go depth", "go infinite"})

\* C21: a bestmove read in waitingBestMoveToRun writes the pending position, when
\* one is stored, and then the go line, `go depth n` for a pending depth n and
\* `go infinite` for none; the state is then running and nothing is pending.
C21_RestartOnBestMove ==
    [][(step'.op = "bestmove" /\ state = "waitingBestMoveToRun") =>
          /\ PositionAndGo(step'.wrote) =
                (IF pendingPosition # 0 THEN << <<"position", pendingPosition>> >> ELSE <<>>)
                \o (IF pendingDepth # 0 THEN << <<"go depth", pendingDepth>> >>
                                        ELSE << <<"go infinite", 0>> >>)
          /\ state' = "running"
          /\ pendingPosition' = 0
          /\ pendingDepth' = 0]_vars

\* the restart wrote a position line and then a `go depth` line
C21_Witness ==
    /\ step.op = "bestmove"
    /\ step.pre = "waitingBestMoveToRun"
    /\ Len(PositionAndGo(step.wrote)) = 2
    /\ PositionAndGo(step.wrote)[1][1] = "position"
    /\ PositionAndGo(step.wrote)[2][1] = "go depth"
    /\ state = "running"

\* C22: a bestmove read in running or waitingBestMoveToIdle leaves the state idle
\* and nothing pending, and handleBestMove writes nothing: the only lines written
\* in that turn are those of a newGame() that awaited this bestmove.
C22_EndOnBestMove ==
    [][(step'.op = "bestmove" /\ state \in {"running", "waitingBestMoveToIdle"}) =>
          /\ state' = "idle"
          /\ pendingPosition' = 0
          /\ pendingDepth' = 0
          /\ step'.wrote = RestOfNewGame(waiters).wrote
          /\ Search(step'.wrote) = <<>>
          /\ Lines(step'.wrote, "position") = <<>>]_vars

\* a bestmove ended the search while a position was pending, and nothing was written
C22_Witness ==
    /\ step.op = "bestmove"
    /\ step.pre = "waitingBestMoveToIdle"
    /\ step.hist.pos # 0
    /\ step.wrote = <<>>
    /\ state = "idle"
    /\ pendingPosition = 0

\* C23: position() while idle stores its string as pending, writes nothing and
\* leaves the state idle; go() while idle writes the position line of the pending
\* string, if any, immediately before its go line, and the state is running.
C23_IdlePositionThenGo ==
    /\ [][(step'.op = "position" /\ state = "idle") =>
            /\ step'.wrote = <<>>
            /\ pendingPosition' = step'.arg
            /\ state' = "idle"]_vars
    /\ [][(step'.op = "go" /\ state = "idle") =>
            /\ step'.wrote =
                  (IF pendingPosition # 0 THEN << <<"position", pendingPosition>> >> ELSE <<>>)
                  \o (IF step'.arg # 0 THEN << <<"go depth", step'.arg>> >>
                                       ELSE << <<"go infinite", 0>> >>)
            /\ state' = "running"]_vars
    /\ []((state = "idle" /\ sinceGo.pos # 0) => pendingPosition = sinceGo.pos)

\* go() while idle wrote the position stored by position() while idle
C23_Witness ==
    /\ step.op = "go"
    /\ step.pre = "idle"
    /\ Len(step.wrote) = 2
    /\ step.wrote[1][1] = "position"
    /\ state = "running"

\* C24: go() while running writes nothing, changes neither the state nor what is
\* pending, adds no pending promise and returns a resolved promise, whatever the
\* depth.
C24_GoWhileRunningNoOp ==
    [][(step'.op = "go" /\ state = "running") =>
          /\ step'.wrote = <<>>
          /\ step'.res = "resolved"
          /\ UNCHANGED <<state, pendingPosition, pendingDepth, wire, waiters, readyWaiters,
                         timer>>]_vars

\* go() with a depth was called while a search ran
C24_Witness ==
    /\ step.op = "go"
    /\ step.pre = "running"
    /\ step.arg # 0
    /\ step.res = "resolved"
    /\ state = "running"

\* C25: position(p) while running stores p as pending, writes one `stop` line and
\* nothing else, and the state is waitingBestMoveToRun.
C25_PositionWhileRunning ==
    [][(step'.op = "position" /\ state = "running") =>
          /\ pendingPosition' = step'.arg
          /\ step'.wrote = << <<"stop", 0>> >>
          /\ state' = "waitingBestMoveToRun"]_vars

\* position() was called while a search ran
C25_Witness ==
    /\ step.op = "position"
    /\ step.pre = "running"
    /\ pendingPosition = step.arg
    /\ state = "waitingBestMoveToRun"

\* C26 as stated: in waitingBestMoveToIdle, stop() and go() write nothing and
\* leave the state; position() alone moves it to waitingBestMoveToRun.
C26_OnlyPositionQueues ==
    [][state = "waitingBestMoveToIdle" =>
          /\ step'.op \in {"stop", "go"} =>
                (step'.wrote = <<>> /\ state' = "waitingBestMoveToIdle")
          /\ step'.op = "position" => state' = "waitingBestMoveToRun"]_vars

\* C26 amended: in waitingBestMoveToIdle, stop(), position() and go() write
\* nothing; stop() leaves the state, while position() and go() both move it to
\* waitingBestMoveToRun, position() storing its string as the pending position and
\* go(depth) its depth as the pending depth.
C26_PositionAndGoQueue ==
    [][state = "waitingBestMoveToIdle" =>
          /\ step'.op \in {"stop", "position", "go"} => step'.wrote = <<>>
          /\ step'.op = "stop" =>
                UNCHANGED <<state, pendingPosition, pendingDepth>>
          /\ step'.op = "position" =>
                /\ state' = "waitingBestMoveToRun"
                /\ pendingPosition' = step'.arg
                /\ pendingDepth' = pendingDepth
          /\ step'.op = "go" =>
                /\ state' = "waitingBestMoveToRun"
                /\ pendingDepth' = step'.arg
                /\ pendingPosition' = pendingPosition]_vars

\* go() queued a restart while the answer to stop() was awaited
C26_Witness ==
    /\ step.op = "go"
    /\ step.pre = "waitingBestMoveToIdle"
    /\ step.wrote = <<>>
    /\ state = "waitingBestMoveToRun"

\* C27 as stated: in waitingBestMoveToRun, each of stop(), position() and go()
\* writes nothing and leaves the state; position() overwrites the pending position
\* and go(depth) the pending depth.
C27_QueuedRestartStays ==
    [][(state = "waitingBestMoveToRun" /\ step'.op \in {"stop", "position", "go"}) =>
          /\ step'.wrote = <<>>
          /\ state' = "waitingBestMoveToRun"
          /\ step'.op = "position" => pendingPosition' = step'.arg
          /\ step'.op = "go" => pendingDepth' = step'.arg]_vars

\* C27 amended: in waitingBestMoveToRun, each of stop(), position() and go()
\* writes nothing; position() and go() leave the state, position() overwriting the
\* pending position and go(depth) the pending depth; stop() moves the state to
\* waitingBestMoveToIdle and keeps the pending position and the pending depth.
C27_StopCancelsRestart ==
    [][(state = "waitingBestMoveToRun" /\ step'.op \in {"stop", "position", "go"}) =>
          /\ step'.wrote = <<>>
          /\ step'.op = "position" =>
                /\ state' = "waitingBestMoveToRun"
                /\ pendingPosition' = step'.arg
                /\ pendingDepth' = pendingDepth
          /\ step'.op = "go" =>
                /\ state' = "waitingBestMoveToRun"
                /\ pendingDepth' = step'.arg
                /\ pendingPosition' = pendingPosition
          /\ step'.op = "stop" =>
                /\ state' = "waitingBestMoveToIdle"
                /\ UNCHANGED <<pendingPosition, pendingDepth>>]_vars

\* stop() cancelled a queued restart
C27_Witness ==
    /\ step.op = "stop"
    /\ step.pre = "waitingBestMoveToRun"
    /\ step.wrote = <<>>
    /\ state = "waitingBestMoveToIdle"
    /\ pendingPosition # 0

\* C28: the pending depth is 0 in every state other than waitingBestMoveToRun.
C28_DepthOnlyWhileQueued == state # "waitingBestMoveToRun" => pendingDepth = 0

\* C29: the pending position is the string of the latest position() call or
\* nothing; a position line is written only when a string is pending, carries that
\* string, is followed immediately by a go line, and clears the pending position,
\* so that one position() call gives at most one position line.
C29_PositionConsumedOnce ==
    [][/\ step'.op = "position" => pendingPosition' = step'.arg
       /\ step'.op # "position" => pendingPosition' \in {pendingPosition, 0}
       /\ Lines(step'.wrote, "position") # <<>> =>
             /\ pendingPosition # 0
             /\ Lines(step'.wrote, "position") = << <<"position", pendingPosition>> >>
             /\ pendingPosition' = 0
             /\ \A i \in 1..Len(step'.wrote) :
                   step'.wrote[i][1] = "position" =>
                       (i < Len(step'.wrote) /\
                        step'.wrote[i + 1][1] \in {"go depth", "go infinite"})]_vars

\* the restart wrote the position line of a string that had replaced another one,
\* and nothing is pending any more
C29_Witness ==
    /\ step.op = "bestmove"
    /\ step.hist.over
    /\ Lines(step.wrote, "position") # <<>>
    /\ pendingPosition = 0

\* the option lines that are well formed: name, type, then default, min, max
WellFormed ==
    { <<"option", "name", "Hash", "type", "spin", "default", "16", "min", "1", "max", "1024">>,
      <<"option", "name", "Clear", "Hash", "type", "button">> }

\* the names of the options in seq
Names(seq) == [i \in 1..Len(seq) |-> seq[i].name]

\* the names given by the option lines of seq
LineNames(seq) ==
    [i \in 1..Len(seq) |-> IF seq[i][4] = "type" THEN <<seq[i][3]>> ELSE <<seq[i][3], seq[i][4]>>]

C31_GoLineRendering ==
    [][GoLines(step'.wrote) # <<>> =>
          /\ \/ step'.op = "go" /\ state = "idle"
             \/ step'.op = "bestmove" /\ state = "waitingBestMoveToRun"
          /\ LET d == IF step'.op = "go" THEN step'.arg ELSE pendingDepth
             IN GoLines(step'.wrote) =
                   IF d # 0 THEN << <<"go depth", d>> >> ELSE << <<"go infinite", 0>> >>]_vars

\* a restart with no pending depth wrote `go infinite` after a go() with a depth
C31_Witness ==
    /\ step.op = "bestmove"
    /\ step.pre = "waitingBestMoveToRun"
    /\ GoLines(step.wire) = << <<"go depth", 1>> >>
    /\ GoLines(step.wrote) = << <<"go infinite", 0>> >>

\* C32: when a go line is written and position() was called for the current
\* child, the last position line written to that child carries the string of the
\* latest position() call.
C32_LatestPositionSearched ==
    (GoLines(step.wrote) # <<>> /\ asked # 0) =>
        (positionSent.proc = process /\ positionSent.pos = asked)

\* C33: with a child that prints one bestmove line for each go line and none
\* otherwise, no bestmove line is read while the state is idle: handleBestMove
\* never throws.
C33_NoBestMoveWhileIdle ==
    step.op = "bestmove" => (step.pre # "idle" /\ step.res # "throw")

\* the bestmove that answers a stopped search was read, and none is owed any more
C33_Witness ==
    /\ step.op = "bestmove"
    /\ step.pre = "waitingBestMoveToIdle"
    /\ Lines(step.wire, "stop") # <<>>
    /\ state = "idle"
    /\ GoLines(wire) = <<>>

\* C34: stop() called while running or stopping leaves the state
\* waitingBestMoveToIdle; it stays so until position() or go() is called, the
\* engine is killed, or a bestmove is read; and that bestmove leaves the state idle
\* and writes no go line.
C34_StopHonoured ==
    [][/\ (step'.op = "stop" /\ state \in {"running"} \cup Stopping) =>
             state' = "waitingBestMoveToIdle"
       /\ (state = "waitingBestMoveToIdle"
            /\ step'.op \notin {"position", "go", "kill", "bestmove"}) =>
             state' = "waitingBestMoveToIdle"
       /\ (state = "waitingBestMoveToIdle" /\ step'.op = "bestmove") =>
             (state' = "idle" /\ GoLines(step'.wrote) = <<>>)]_vars

\* a bestmove ended the search after stop() had cancelled a restart queued by go()
C34_Witness ==
    /\ step.op = "bestmove"
    /\ step.pre = "waitingBestMoveToIdle"
    /\ step.hist.ops = {"go", "stop"}
    /\ Len(Lines(step.wire, "stop")) = 1
    /\ GoLines(step.wrote) = <<>>
    /\ state = "idle"

\* C35: a bestmove read from a child resolves no promise that go(), stop() or
\* position() made while another child was held.
C35_FuturesOfOneProcess ==
    step.op = "bestmove" =>
        \A w \in step.got : (w.op \in {"go", "stop", "position"} => w.proc = process)

\* C36: a state other than unloaded implies that a child process is held, and no
\* go(), stop() or position() fails in send() for want of a process.
C36_ProcessHeld ==
    /\ state # "unloaded" => process # 0
    /\ step.op \in {"go", "stop", "position"} => step.res # "throw"

\* kill() during a search left no process and the state unloaded
C36_Witness ==
    /\ step.op = "kill"
    /\ step.pre = "running"
    /\ process = 0
    /\ state = "unloaded"

\* C37: the interval is armed only while a search is outstanding: it is not
\* armed when the state is idle or unloaded.
C37_TimerOnlyWhileSearching == state \in {"idle", "unloaded"} => ~timer

\* C38: every record of a batch handed to the consumer after the notification of
\* a position line, and before the next one, was read during a search on the
\* position notified.
C38_BatchOfNotifiedPosition ==
    [][\A m \in Moves :
          (step'.sent[m] # 0 /\ positionSent.pos # 0) => step'.from[m] = positionSent.pos]_vars

====
